---- MODULE Spec2Model ----
(***************************************************************************)
(* Model of ozz-animation's offline AnimationOptimizer                     *)
(* (src/animation/offline/animation_optimizer.cc): the keyframe decimation *)
(* Filter, the bone length estimation (BuildBoneLength / Iter) and the     *)
(* AnimationOptimizer::operator() that drives them; and of the sample      *)
(* application that rebuilds a runtime animation and samples it with a     *)
(* cache (OptimizeSampleApplication).                                      *)
(*                                                                         *)
(* Numbers.  The code computes in `float`.  A float is modelled as a       *)
(* binary floating point number with MantBits significant bits, rounded to *)
(* nearest (ties to even) after every arithmetic operation, and stored as  *)
(* an integer count of 2^-FracBits (so 1.0 is the integer Unit).           *)
(***************************************************************************)
EXTENDS Integers, Sequences, FiniteSets, TLC

\* ------------------------------------------------------------------ bounds
MaxKeys == 4        \* longest keyframe sequence of one channel
MaxJoints == 3      \* most joints and tracks given to the optimizer
MaxBones == 4       \* most joints given to BuildBoneLength alone
MantBits == 4       \* significant bits of the modelled float
FracBits == 8       \* the modelled float's smallest step is 2^-FracBits
MaxBuilds == 3      \* most runtime animations the sample application builds
MaxAddresses == 2   \* addresses the allocator gives a runtime animation

\* The times, values and tolerances keyframes are drawn from (whole numbers,
\* all exactly representable with MantBits bits).
TimeGrid == {0, 1, 2, 7, 13}
ValueGrid == {0, 1, 2, 7, 13}
Tolerances == {0, 1}

\* ------------------------------------------------------------ float model
Pow2Table[n \in 0..30] == IF n = 0 THEN 1 ELSE 2 * Pow2Table[n - 1]
Pow2(n) == Pow2Table[n]

Unit == Pow2(FracBits)

AbsInt(x) == IF x < 0 THEN -x ELSE x

\* The exponent k >= 0 for which a / (den * 2^k) has at most MantBits bits.
RECURSIVE RoundExp(_, _, _)
RoundExp(a, den, k) ==
  IF a < den * Pow2(MantBits + k) THEN k ELSE RoundExp(a, den, k + 1)

\* a / d rounded to the nearest integer, ties to even.
RoundNearestEven(a, d) ==
  LET q == a \div d
      r == a % d
  IN  IF 2 * r > d \/ (2 * r = d /\ q % 2 = 1) THEN q + 1 ELSE q

\* The float nearest to the exact quotient num / den (den > 0).
RoundF(num, den) ==
  LET a == AbsInt(num)
      k == RoundExp(a, den, 0)
      m == RoundNearestEven(a, den * Pow2(k)) * Pow2(k)
  IN  IF num < 0 THEN -m ELSE m

FAdd(x, y) == RoundF(x + y, 1)
FSub(x, y) == RoundF(x - y, 1)
FMul(x, y) == RoundF(x * y, Unit)
\* x / y for y # 0 (a division by zero gives an infinity or a NaN: see
\* AlphaInRange).
FDiv(x, y) == IF y < 0 THEN RoundF(-(x * Unit), -y) ELSE RoundF(x * Unit, y)

\* ------------------------------------------------------------- keyframes
Key(t, v) == [time |-> t * Unit, value |-> v * Unit]

\* 0-based element access, as in the code.
At(s, k) == s[k + 1]

\* math::Lerp of one component: (b - a) * alpha + a.
Lerp(a, b, alpha) == FAdd(FMul(FSub(b, a), alpha), a)

\* math::Compare of one component: |a - b| <= tolerance.
Compare(a, b, tol) == AbsInt(FSub(a, b)) <= tol

CompareTranslation(a, b, tol) == Compare(a, b, tol)
LerpTranslation(a, b, alpha) == Lerp(a, b, alpha)
CompareScale(a, b, tol) == Compare(a, b, tol)
LerpScale(a, b, alpha) == Lerp(a, b, alpha)

\* The comparator and interpolator Filter is instantiated with.  A translation
\* or scale value is modelled by one of its components (Compare and Lerp act
\* on each component alike).  The rotation channel's NLerp and angular Compare
\* need a square root and an arc cosine: no arm is given for it, and the
\* animations of the model hold no rotation keyframe, so that Filter never
\* calls them.
Comparator(chan, a, b, tol) ==
  CASE chan = "translation" -> CompareTranslation(a, b, tol)
    [] chan = "scale" -> CompareScale(a, b, tol)

Interpolator(chan, a, b, alpha) ==
  CASE chan = "translation" -> LerpTranslation(a, b, alpha)
    [] chan = "scale" -> LerpScale(a, b, alpha)

\* ----------------------------------------------------------------- Filter
\* Alpha dividing by right.time - test.time where it should divide by
\* right.time - left.time.
AlphaOverTest(left, test, right) ==
  FDiv(FSub(test.time, left.time), FSub(right.time, test.time))

\* alpha of the key `test` between the keys `left` and `right`.
Alpha(left, test, right) ==
  FDiv(FSub(test.time, left.time), FSub(right.time, left.time))

\* assert(alpha >= 0.f && alpha <= 1.f).  When right.time = left.time alpha is
\* a NaN (0 / 0) or an infinity (x / 0), and the assertion is false.
AlphaInRange(left, test, right) ==
  /\ FSub(right.time, left.time) # 0
  /\ Alpha(left, test, right) >= 0
  /\ Alpha(left, test, right) <= Unit

\* Whether key j of src is rebuilt within tol from keys l and r.
Interpolated(src, chan, tol, l, j, r) ==
  LET left == At(src, l)
      right == At(src, r)
      test == At(src, j)
  IN  Comparator(chan,
                 Interpolator(chan, left.value, right.value,
                              Alpha(left, test, right)),
                 test.value, tol)

\* The inner loop of Filter, from key j on: "push" when a key of
\* ]last_src_pushed, i] cannot be interpolated from last_src_pushed and i + 1,
\* "skip" when all can, "assert" when the assertion on alpha fails first.
RECURSIVE InnerLoop(_, _, _, _, _, _)
InnerLoop(src, chan, tol, last, i, j) ==
  IF j > i THEN "skip"
  ELSE IF ~AlphaInRange(At(src, last), At(src, j), At(src, i + 1))
       THEN "assert"
  ELSE IF ~Interpolated(src, chan, tol, last, j, i + 1) THEN "push"
  ELSE InnerLoop(src, chan, tol, last, i, j + 1)

\* The state of Filter's outer loop: the index i, last_src_pushed, the keys
\* of _dest and (history) the src index each of them was copied from.
FilterBegin ==
  [i |-> 0, last_src_pushed |-> 0, dest |-> <<>>, pushed |-> <<>>,
   failed |-> FALSE]

Push(st, src) ==
  [st EXCEPT !.dest = Append(@, At(src, st.i)),
             !.pushed = Append(@, st.i),
             !.last_src_pushed = st.i,
             !.i = @ + 1]

\* FilterIter with the inner loop testing key i alone instead of every key of
\* ]last_src_pushed, i].
FilterIterOnlyCurrent(src, chan, tol, st) ==
  IF st.i = 0 \/ st.i = Len(src) - 1 THEN Push(st, src)
  ELSE LET r == InnerLoop(src, chan, tol, st.last_src_pushed, st.i, st.i)
       IN  CASE r = "push" -> Push(st, src)
             [] r = "skip" -> [st EXCEPT !.i = @ + 1]
             [] r = "assert" -> [st EXCEPT !.failed = TRUE]

\* FilterIter without the test for the last key (i == _src.size() - 1): the
\* last key is compared with the key past the end, read as the last key itself.
FilterIterNoLast(src, chan, tol, st) ==
  IF st.i = 0 THEN Push(st, src)
  ELSE IF st.i = Len(src) - 1 THEN [st EXCEPT !.i = @ + 1]
  ELSE LET r == InnerLoop(src, chan, tol, st.last_src_pushed, st.i,
                          st.last_src_pushed + 1)
       IN  CASE r = "push" -> Push(st, src)
             [] r = "skip" -> [st EXCEPT !.i = @ + 1]
             [] r = "assert" -> [st EXCEPT !.failed = TRUE]

\* FilterIter with the comparator's result not negated: a key is pushed when
\* the keys can be interpolated.
FilterIterInverted(src, chan, tol, st) ==
  IF st.i = 0 \/ st.i = Len(src) - 1 THEN Push(st, src)
  ELSE LET r == InnerLoop(src, chan, tol, st.last_src_pushed, st.i,
                          st.last_src_pushed + 1)
       IN  CASE r = "skip" -> Push(st, src)
             [] r = "push" -> [st EXCEPT !.i = @ + 1]
             [] r = "assert" -> [st EXCEPT !.failed = TRUE]

\* FilterIter pushing the right key, _src[i + 1], where it should push _src[i].
FilterIterPushRight(src, chan, tol, st) ==
  IF st.i = 0 \/ st.i = Len(src) - 1 THEN Push(st, src)
  ELSE LET r == InnerLoop(src, chan, tol, st.last_src_pushed, st.i,
                          st.last_src_pushed + 1)
       IN  CASE r = "push" -> [Push(st, src) EXCEPT
                                 !.dest = Append(st.dest, At(src, st.i + 1))]
             [] r = "skip" -> [st EXCEPT !.i = @ + 1]
             [] r = "assert" -> [st EXCEPT !.failed = TRUE]

\* One iteration of the outer loop (i < Len(src)).
FilterIter(src, chan, tol, st) ==
  IF st.i = 0 \/ st.i = Len(src) - 1 THEN Push(st, src)
  ELSE LET r == InnerLoop(src, chan, tol, st.last_src_pushed, st.i,
                          st.last_src_pushed + 1)
       IN  CASE r = "push" -> Push(st, src)
             [] r = "skip" -> [st EXCEPT !.i = @ + 1]
             [] r = "assert" -> [st EXCEPT !.failed = TRUE]

FilterDone(src, st) == st.failed \/ st.i >= Len(src)

\* The whole of Filter.
RECURSIVE FilterLoop(_, _, _, _)
FilterLoop(src, chan, tol, st) ==
  IF FilterDone(src, st) THEN st
  ELSE FilterLoop(src, chan, tol, FilterIter(src, chan, tol, st))

Filter(src, chan, tol) == FilterLoop(src, chan, tol, FilterBegin).dest

\* ------------------------------------------------- keyframe sequences
StrictlyIncreasing(s) == \A k \in 1..(Len(s) - 1) : s[k] < s[k + 1]

TimeSeqs ==
  {s \in UNION {[1..n -> TimeGrid] : n \in 0..MaxKeys} : StrictlyIncreasing(s)}

\* The keyframe sequences with strictly increasing times (what
\* RawAnimation::Validate accepts), of at most MaxKeys keys.
Tracks ==
  UNION {{[k \in 1..Len(ts) |-> Key(ts[k], vs[k])] :
            vs \in [1..Len(ts) -> ValueGrid]} : ts \in TimeSeqs}

\* -------------------------------------------------------- bone lengths
\* Skeleton::kNoParentIndex: the parent of a root, no joint's index.
kNoParentIndex == MaxJoints + MaxBones

Max(a, b) == IF a < b THEN b ELSE a

\* Length of a translation value (of its one component).
Length(v) == AbsInt(v)

\* max_length of a track: lines 127-131.
RECURSIVE MaxLengthFrom(_, _, _)
MaxLengthFrom(translations, j, max_length) ==
  IF j >= Len(translations) THEN max_length
  ELSE MaxLengthFrom(translations, j + 1,
                     Max(max_length, Length(At(translations, j).value)))

\* The scan of the scale keys: lines 135-139.
RECURSIVE MaxScaleFrom(_, _, _)
MaxScaleFrom(scales, j, max_scale) ==
  IF j >= Len(scales) THEN max_scale
  ELSE MaxScaleFrom(scales, j + 1, Max(max_scale, At(scales, j).value))

\* max_scale of a track: lines 133-143.
MaxScale(scales) ==
  IF Len(scales) # 0 THEN MaxScaleFrom(scales, 0, 0) ELSE Unit

\* The JointSpec of a track.
JointSpecOf(track) ==
  [length |-> MaxLengthFrom(track.translations, 0, 0),
   scale |-> MaxScale(track.scales)]

NumJoints(skeleton) == Len(skeleton.parent)

\* The first index >= child whose parent is joint, or num_joints: lines 85-89.
RECURSIVE FirstChild(_, _, _)
FirstChild(skeleton, joint, child) ==
  IF child < NumJoints(skeleton) /\ At(skeleton.parent, child) # joint
  THEN FirstChild(skeleton, joint, child + 1)
  ELSE child

\* Lines 73-77: applies the parent's scale to the joint.
ApplyParentScale(skeleton, joint, joint_specs) ==
  LET parent == At(skeleton.parent, joint)
  IN  IF parent # kNoParentIndex
      THEN [joint_specs EXCEPT
              ![joint + 1] =
                [length |-> FMul(@.length, At(joint_specs, parent).scale),
                 scale |-> FMul(@.scale, At(joint_specs, parent).scale)]]
      ELSE joint_specs

\* What the build makes of line 90.  With NDEBUG the assertion is compiled
\* out.  Without it, the assertion reads properties[child].parent, and when the
\* scan stopped at child = num_joints that read is past the end of the joint
\* properties: any value may come back, past_end.
Builds(num_joints) ==
  {[ndebug |-> n, past_end |-> v] :
     n \in BOOLEAN, v \in (0..(num_joints - 1)) \cup {kNoParentIndex}}

\* A build with its assertions, used where no read is past the end.
DebugBuild == [ndebug |-> FALSE, past_end |-> kNoParentIndex]

\* Line 90 reads past the end of the joint properties.
ReadsPastEnd(skeleton, child, bld) ==
  ~bld.ndebug /\ child >= NumJoints(skeleton)

\* assert(properties[child].parent == _joint): line 90.
FirstChildAsserted(skeleton, joint, child, bld) ==
  \/ bld.ndebug
  \/ IF child < NumJoints(skeleton) THEN At(skeleton.parent, child) = joint
     ELSE bld.past_end = joint

\* Iter and its loop over the children.  bl holds _joint_specs, _lengths, the
\* joints entered so far (history), whether the assertion of line 90 failed
\* (the program is then aborted: nothing more is done) and whether it read
\* past the end (history); Iter adds the value it returns, len.
RECURSIVE Iter(_, _, _, _)
RECURSIVE IterChilds(_, _, _, _, _)
IterChilds(skeleton, joint, child, bld, bl) ==
  IF child < NumJoints(skeleton) /\ At(skeleton.parent, child) = joint
  THEN LET r == Iter(skeleton, child, bld, bl)
       IN  IF r.failed THEN r
           ELSE IterChilds(skeleton, joint, child + 1, bld,
                           [r EXCEPT !.lengths[joint + 1] = Max(@, r.len)])
  ELSE bl

Iter(skeleton, joint, bld, bl) ==
  LET entered ==
        [bl EXCEPT !.joint_specs = ApplyParentScale(skeleton, joint, @),
                   !.entered = Append(@, joint)]
      child == FirstChild(skeleton, joint, joint + 1)
      scanned ==
        [entered EXCEPT
           !.overread = @ \/ ReadsPastEnd(skeleton, child, bld)]
      after ==
        IF At(skeleton.is_leaf, joint)
        THEN [entered EXCEPT !.lengths[joint + 1] = 0]
        ELSE IF ~FirstChildAsserted(skeleton, joint, child, bld)
        THEN [scanned EXCEPT !.failed = TRUE]
        ELSE IterChilds(skeleton, joint, child, bld, scanned)
  IN  IF after.failed THEN after
      ELSE [after EXCEPT
              !.len = FAdd(At(after.lengths, joint),
                           At(after.joint_specs, joint).length)]

\* The loop over the roots: lines 147-153.
RECURSIVE IterRoots(_, _, _, _)
IterRoots(skeleton, root, bld, bl) ==
  IF /\ ~bl.failed
     /\ root < NumJoints(skeleton)
     /\ At(skeleton.parent, root) = kNoParentIndex
  THEN IterRoots(skeleton, root + 1, bld, Iter(skeleton, root, bld, bl))
  ELSE bl

\* BuildBoneLength: _lengths and (history) the joint specs and joints entered.
BuildBoneLength(animation, skeleton, bld) ==
  IF Len(animation.tracks) = 0
  THEN [joint_specs |-> <<>>, lengths |-> <<>>, entered |-> <<>>,
        failed |-> FALSE, overread |-> FALSE, len |-> 0]
  ELSE IterRoots(skeleton, 0, bld,
         [joint_specs |-> [i \in 1..Len(animation.tracks) |->
                             JointSpecOf(animation.tracks[i])],
          lengths |-> [i \in 1..Len(animation.tracks) |-> 0],
          entered |-> <<>>, failed |-> FALSE, overread |-> FALSE, len |-> 0])

\* ------------------------------------------------------------ animations
\* RawAnimation::Validate: every channel's keys have strictly increasing
\* times within [0, duration].
ValidChannel(keys, duration) ==
  /\ \A k \in 1..Len(keys) : keys[k].time >= 0 /\ keys[k].time <= duration
  /\ \A k \in 1..(Len(keys) - 1) : keys[k].time < keys[k + 1].time

Validate(animation) ==
  \A i \in 1..Len(animation.tracks) :
    /\ ValidChannel(animation.tracks[i].translations, animation.duration)
    /\ ValidChannel(animation.tracks[i].rotations, animation.duration)
    /\ ValidChannel(animation.tracks[i].scales, animation.duration)

\* RawAnimation(): no track.
DefaultAnimation == [duration |-> Unit, tracks |-> <<>>]

\* What *_output holds before the call.
PriorAnimation ==
  [duration |-> 2 * Unit,
   tracks |-> <<[translations |-> <<Key(0, 7), Key(1, 0), Key(2, 7)>>,
                 rotations |-> <<>>, scales |-> <<>>]>>]

\* The joint tracks animations are made of.  No track has rotation keys.
ValidTracks ==
  {[translations |-> <<Key(0, 0), Key(1, 1), Key(2, 1)>>,
    rotations |-> <<>>, scales |-> <<>>],
   [translations |-> <<Key(0, 7)>>,
    rotations |-> <<>>, scales |-> <<Key(0, 2), Key(1, 2), Key(2, 2)>>],
   [translations |-> <<Key(0, 1), Key(1, 7), Key(2, 1)>>,
    rotations |-> <<>>, scales |-> <<Key(0, -2), Key(2, -1)>>]}

\* Tracks Validate rejects: times not increasing.
InvalidTracks ==
  {[translations |-> <<Key(1, 0), Key(1, 2)>>,
    rotations |-> <<>>, scales |-> <<>>]}

\* The animations of at most n tracks, all valid or all but the first.
TrackLists(n) ==
  UNION {{tr \in [1..m -> ValidTracks \cup InvalidTracks] :
            \A i \in 2..m : tr[i] \in ValidTracks} : m \in 0..n}

Animations(n) == {[duration |-> 2 * Unit, tracks |-> tr] : tr \in TrackLists(n)}

\* The forests of at most max joints in which a parent's index is less than
\* its children's, a joint being a leaf iff it has no child.
ParentArrays(max) ==
  UNION {{p \in [1..n -> (0..(n - 1)) \cup {kNoParentIndex}] :
            \A j \in 1..n : p[j] = kNoParentIndex \/ p[j] < j - 1} :
         n \in 0..max}

SkeletonOf(p) ==
  [parent |-> p,
   is_leaf |-> [j \in 1..Len(p) |-> \A c \in 1..Len(p) : p[c] # j - 1]]

Skeletons(max) == {SkeletonOf(p) : p \in ParentArrays(max)}

\* The settings of the optimizer: one tolerance per channel.
Optimizers ==
  {[translation_tolerance |-> Unit, rotation_tolerance |-> Unit,
    scale_tolerance |-> 0]}

\* One turn of the loop of lines 275-285 on track i.
FilterTrack(track, optimizer) ==
  [translations |-> Filter(track.translations, "translation",
                           optimizer.translation_tolerance),
   rotations |-> Filter(track.rotations, "rotation",
                        optimizer.rotation_tolerance),
   scales |-> Filter(track.scales, "scale", optimizer.scale_tolerance)]

\* ------------------------------------------- the sample application
NULL == 0

Addresses == 1..MaxAddresses

\* A SamplingCache none of whose cursors is resolved: animation_ is the
\* address of the animation the cursors were resolved against, resolved
\* (history) which build of the runtime animation that was.
FreshCache == [animation_ |-> NULL, resolved |-> 0]

\* SamplingCache::Invalidate.
Invalidate(cache) == [cache EXCEPT !.animation_ = NULL, !.resolved = 0]

\* The members of OptimizeSampleApplication after its constructor, with pc
\* (where the framework is), built (history: how many runtime animations were
\* built; the one alive is the latest), sampled (history: the last sampling
\* job, the build it sampled and the build its cursors were resolved against)
\* and rebuilt (history: the last rebuild of OnGui, the address it deleted,
\* animation_rt_ and the cache when it called Invalidate, the cache when it
\* called BuildAnimations).
AppStart ==
  [pc |-> "start",
   optimize_ |-> TRUE,
   tolerance |-> 0,
   animation_rt_ |-> NULL,
   cache_allocated |-> FALSE,
   cache |-> FreshCache,
   ret |-> TRUE,
   built |-> 0,
   sampled |-> [ran |-> FALSE, animation |-> 0, cursors |-> 0],
   rebuilt |-> [deleted |-> NULL, at_invalidate |-> NULL,
                cache_was |-> FreshCache, at_build |-> FreshCache]]

\* The application while it is not studied.
AppIdle == [AppStart EXCEPT !.pc = "idle"]

\* SamplingJob::Run on animation_rt_ with cache_: the cache resolves its
\* cursors anew when it was resolved against an animation at another address
\* (or against none), and goes on from its cursors otherwise.
SamplingJobRun(a) ==
  LET cache == IF a.cache.animation_ # a.animation_rt_
               THEN [animation_ |-> a.animation_rt_, resolved |-> a.built]
               ELSE a.cache
  IN  [a EXCEPT !.cache = cache,
                !.sampled = [ran |-> TRUE, animation |-> a.built,
                             cursors |-> cache.resolved],
                !.ret = TRUE]

\* BuildAnimations: the optimizer and the builder succeed (ok) and the new
\* runtime animation is allocated at address, or one of them fails.
BuildAnimations(a, address, ok) ==
  IF a.animation_rt_ # NULL THEN [a EXCEPT !.pc = "abort"]
  ELSE IF ok
  THEN [a EXCEPT !.animation_rt_ = address, !.built = @ + 1, !.ret = TRUE]
  ELSE [a EXCEPT !.ret = FALSE]

\* Rebuild without the call of cache_->Invalidate().
RebuildNoInvalidate(a, address, ok) ==
  LET deleted == [a EXCEPT !.animation_rt_ = NULL,
                           !.rebuilt.deleted = a.animation_rt_]
      building == [deleted EXCEPT !.rebuilt.at_build = deleted.cache]
  IN  BuildAnimations(building, address, ok)

\* The rebuild of OnGui: deletes the runtime animation, invalidates the cache
\* and builds a new runtime animation.
Rebuild(a, address, ok) ==
  LET deleted == [a EXCEPT !.animation_rt_ = NULL,
                           !.rebuilt.deleted = a.animation_rt_]
      invalidated ==
        [deleted EXCEPT !.cache = Invalidate(@),
                        !.rebuilt.at_invalidate = deleted.animation_rt_,
                        !.rebuilt.cache_was = deleted.cache]
      building == [invalidated EXCEPT !.rebuilt.at_build = invalidated.cache]
  IN  BuildAnimations(building, address, ok)

\* ------------------------------------------------ Filter, step by step
VARIABLES
  src,          \* Filter's _src
  tolerance,    \* Filter's _tolerance
  loop,         \* Filter's loop state: i, last_src_pushed, _dest
  fpc,          \* "loop" while Filter runs, "done" after its last line
  pass,         \* 1: Filter on the input; 2: Filter on its own output
  first,        \* the input and the output of pass 1 (<<>> before)
  \* AnimationOptimizer::operator()
  optimizer,    \* the optimizer's tolerances
  input,        \* _input
  skeleton,     \* _skeleton
  has_output,   \* _output is not null
  output,       \* *_output
  bone,         \* lengths, as BuildBoneLength left it
  used,         \* history: the tolerances given to Filter, per track
  opc,          \* where operator() is
  ret,          \* what operator() returned
  build,        \* how the library was built: see Builds
  \* the sample application
  app           \* the members of OptimizeSampleApplication and the heap

fvars == <<src, tolerance, loop, fpc, pass, first>>

ovars == <<optimizer, input, skeleton, has_output, output, bone, used, opc, ret>>

xvars == <<build, app>>

vars == <<fvars, ovars, xvars>>

\* The build has its assertions and the application is not started while
\* Filter, operator() and BuildBoneLength are studied.
OthersIdle ==
  /\ build = DebugBuild
  /\ app = AppIdle

\* The optimizer is idle while Filter is studied alone, and conversely.
OptimizerIdle ==
  /\ optimizer = [translation_tolerance |-> 0, rotation_tolerance |-> 0,
                  scale_tolerance |-> 0]
  /\ input = DefaultAnimation
  /\ skeleton = SkeletonOf(<<>>)
  /\ has_output = FALSE
  /\ output = DefaultAnimation
  /\ bone = <<>>
  /\ used = <<>>
  /\ opc = "idle"
  /\ ret = "none"

FilterIdle ==
  /\ src = <<>>
  /\ tolerance = 0
  /\ loop = FilterBegin
  /\ fpc = "idle"
  /\ pass = 0
  /\ first = <<>>

FilterInit ==
  /\ src \in Tracks
  /\ tolerance \in {t * Unit : t \in Tolerances}
  /\ loop = FilterBegin
  /\ fpc = "loop"
  /\ pass = 1
  /\ first = <<>>
  /\ OptimizerIdle
  /\ OthersIdle

\* One turn of the outer loop.
FilterStep ==
  /\ fpc = "loop"
  /\ ~FilterDone(src, loop)
  /\ loop' = FilterIter(src, "translation", tolerance, loop)
  /\ UNCHANGED <<src, tolerance, fpc, pass, first, ovars, xvars>>

\* The loop is over: assert(_dest->size() <= _src.size()) and return.
FilterReturn ==
  /\ fpc = "loop"
  /\ FilterDone(src, loop)
  /\ fpc' = "done"
  /\ UNCHANGED <<src, tolerance, loop, pass, first, ovars, xvars>>

\* The caller decimates the decimated sequence again, same tolerance.
FilterAgain ==
  /\ fpc = "done"
  /\ pass = 1
  /\ ~loop.failed
  /\ first' = [src |-> src, dest |-> loop.dest, pushed |-> loop.pushed]
  /\ src' = loop.dest
  /\ loop' = FilterBegin
  /\ fpc' = "loop"
  /\ pass' = 2
  /\ UNCHANGED <<tolerance, ovars, xvars>>

\* ------------------------------------------------------ properties of Filter
Returned == fpc = "done" /\ ~loop.failed

\* Key j of sequence s can be rebuilt from its keys l and r.
Rebuilt(s, l, j, r) == Interpolated(s, "translation", tolerance, l - 1, j - 1, r - 1)

\* C1: when Filter has returned, every key of src whose time lies strictly
\* between two keys adjacent in dest is accepted by the comparator against the
\* value interpolated between these two keys at its time fraction.
C1_DecimationSafety ==
  Returned =>
    \A k \in 1..(Len(loop.dest) - 1) : \A j \in 1..Len(src) :
      (loop.dest[k].time < src[j].time /\ src[j].time < loop.dest[k + 1].time)
        => Comparator("translation",
                      Interpolator("translation", loop.dest[k].value,
                                   loop.dest[k + 1].value,
                                   Alpha(loop.dest[k], src[j], loop.dest[k + 1])),
                      src[j].value, tolerance)

\* A run that removed two keys in a row whose values are not on the line
\* between the retained ones, under a non zero tolerance.
C1_Witness ==
  /\ Returned /\ pass = 1 /\ tolerance > 0
  /\ Len(src) = 4 /\ Len(loop.dest) = 2
  /\ \E j \in 2..3 :
       (src[j].value - src[1].value) * (src[4].time - src[1].time)
         # (src[4].value - src[1].value) * (src[j].time - src[1].time)

\* C2: Filter keeps the first and the last key: dest is empty iff src is,
\* dest begins with src's first key and ends with its last, and one key gives
\* one key.
C2_FirstLastRetained ==
  Returned =>
    /\ (loop.dest = <<>>) <=> (src = <<>>)
    /\ src # <<>> => /\ loop.dest[1] = src[1]
                     /\ loop.dest[Len(loop.dest)] = src[Len(src)]
    /\ Len(src) = 1 => Len(loop.dest) = 1

\* A returned run on a single key.
C2_Witness == Returned /\ pass = 1 /\ Len(src) = 1 /\ loop.dest = src

\* The interior keys of s that its two neighbours in s rebuild.
RebuiltInterior(s) == {k \in 2..(Len(s) - 1) : Rebuilt(s, k - 1, k, k + 1)}

\* C4 as stated: Filter on the output of Filter gives that output again.
C4_Idempotent == (Returned /\ pass = 2) => loop.dest = first.dest

\* C4 amended: Filter on the output of Filter gives that output again when no
\* interior key of that output is rebuilt within tolerance from its two
\* neighbours in it; otherwise the second run may remove keys.
C4_IdempotentWhenMinimal ==
  (Returned /\ pass = 2 /\ RebuiltInterior(first.dest) = {})
    => loop.dest = first.dest

\* A second run that returned a first output of three keys or more unchanged.
C4_Witness ==
  /\ Returned /\ pass = 2 /\ RebuiltInterior(first.dest) = {}
  /\ Len(first.dest) >= 3 /\ Len(first.dest) < Len(first.src)
  /\ loop.dest = first.dest

\* C5 as stated: no interior key of dest is rebuilt within tolerance from the
\* key before it and the key after it in dest.
C5_Minimal == Returned => RebuiltInterior(loop.dest) = {}

\* C5 amended: every interior key of dest, copied from src[i], was pushed
\* because some key of ]last_src_pushed, i] is not rebuilt within tolerance
\* from src[last_src_pushed] (the key pushed before it) and src[i + 1].
C5_PushedForAReason ==
  Returned =>
    \A k \in 2..(Len(loop.pushed) - 1) :
      LET last == loop.pushed[k - 1]
          i == loop.pushed[k]
      IN  \E j \in (last + 1)..i :
            ~Interpolated(src, "translation", tolerance, last, j, i + 1)

\* A run that kept an interior key which its neighbours in dest rebuild.
C5_Witness ==
  /\ Returned /\ pass = 1 /\ Len(loop.dest) >= 3
  /\ RebuiltInterior(loop.dest) # {}

ConsecutiveDistinct(s) ==
  \A k \in 1..(Len(s) - 1) : s[k].value # s[k + 1].value

\* C6 as stated: at tolerance 0, with consecutive values distinct, dest = src.
C6_ZeroToleranceKeepsAll ==
  (Returned /\ tolerance = 0 /\ ConsecutiveDistinct(src)) => loop.dest = src

\* C6 amended: at tolerance 0, when no interior key of src has exactly the
\* value interpolated between its two neighbours in src, dest = src.
C6_ZeroToleranceKeepsUnrebuilt ==
  (Returned /\ tolerance = 0 /\ RebuiltInterior(src) = {}) => loop.dest = src

\* Four keys, none rebuilt at tolerance 0, all kept.
C6_Witness ==
  /\ Returned /\ pass = 1 /\ tolerance = 0 /\ Len(src) = 4
  /\ ConsecutiveDistinct(src) /\ RebuiltInterior(src) = {}
  /\ loop.dest = src

\* The values of s are an exact affine function of its times.
Collinear(s) ==
  \A k \in 1..Len(s) :
    (s[k].value - s[1].value) * (s[Len(s)].time - s[1].time)
      = (s[Len(s)].value - s[1].value) * (s[k].time - s[1].time)

Endpoints(s) == <<s[1], s[Len(s)]>>

\* C7 as stated: collinear keys (two or more) give the first and last key,
\* whatever the tolerance.
C7_CollinearCollapses ==
  (Returned /\ Len(src) >= 2 /\ Collinear(src)) => loop.dest = Endpoints(src)

\* The tolerance absorbs the rounding of the interpolation: every interior
\* key is within tolerance of the value interpolated between the first key
\* and each key after it.
RoundingAbsorbed(s) ==
  \A j \in 2..(Len(s) - 1) : \A r \in (j + 1)..Len(s) : Rebuilt(s, 1, j, r)

\* C7 amended: collinear keys give the first and the last key when the
\* tolerance absorbs the rounding error of the interpolation.
C7_CollinearCollapsesUpToRounding ==
  (Returned /\ Len(src) >= 2 /\ Collinear(src) /\ RoundingAbsorbed(src))
    => loop.dest = Endpoints(src)

\* Collinear keys of distinct values collapsed to two at tolerance 0.
C7_Witness ==
  /\ Returned /\ pass = 1 /\ tolerance = 0 /\ Len(src) >= 3
  /\ Collinear(src) /\ ConsecutiveDistinct(src)
  /\ loop.dest = Endpoints(src)

\* C15: the assertion on alpha never fails, and whenever the outer loop is at
\* an interior index i, the right key i + 1 is a key of src, the left key
\* last_src_pushed is before i, right.time > left.time, and for every key j
\* of ]last_src_pushed, i] the inner loop is about to test, the divisor
\* right.time - left.time is not zero and 0 <= alpha <= 1.
C15_AlphaWellDefined ==
  fpc # "idle" =>
    /\ ~loop.failed
    /\ (fpc = "loop" /\ loop.i > 0 /\ loop.i < Len(src) - 1) =>
         /\ loop.last_src_pushed < loop.i
         /\ loop.i + 1 < Len(src)
         /\ At(src, loop.i + 1).time > At(src, loop.last_src_pushed).time
         /\ \A j \in (loop.last_src_pushed + 1)..loop.i :
              AlphaInRange(At(src, loop.last_src_pushed), At(src, j),
                           At(src, loop.i + 1))

\* The inner loop has tested keys 1 and 2 of four against keys 0 and 3 and
\* accepted both, the alpha of key 1 being rounded.
C15_Witness ==
  /\ fpc = "loop" /\ pass = 1 /\ ~loop.failed /\ Len(src) = 4
  /\ loop.i = 3 /\ loop.last_src_pushed = 0
  /\ Alpha(src[1], src[2], src[4]) > 0
  /\ Alpha(src[1], src[2], src[4]) < Unit
  /\ Alpha(src[1], src[2], src[4]) * (src[4].time - src[1].time)
       # (src[2].time - src[1].time) * Unit

Init == FilterInit

Next == FilterStep \/ FilterReturn \/ FilterAgain

Spec == Init /\ [][Next]_vars

\* ------------------------------------- AnimationOptimizer::operator()
OptimizeInit ==
  /\ optimizer \in Optimizers
  /\ input \in Animations(MaxJoints)
  /\ skeleton \in {sk \in Skeletons(MaxJoints) :
                     NumJoints(sk) \in {Len(input.tracks), Len(input.tracks) - 1}}
  /\ has_output \in BOOLEAN
  /\ output = PriorAnimation
  /\ bone = <<>>
  /\ used = <<>>
  /\ opc = "entry"
  /\ ret = "none"
  /\ FilterIdle
  /\ OthersIdle

\* Lines 251-253: no output.
ReturnNoOutput ==
  /\ opc = "entry"
  /\ ~has_output
  /\ opc' = "done"
  /\ ret' = "false"
  /\ UNCHANGED <<optimizer, input, skeleton, has_output, output, bone, used, fvars, xvars>>

\* Line 255: *_output = RawAnimation().
ResetOutput ==
  /\ opc = "entry"
  /\ has_output
  /\ output' = DefaultAnimation
  /\ opc' = "validate"
  /\ UNCHANGED <<optimizer, input, skeleton, has_output, bone, used, ret, fvars, xvars>>

\* Lines 258-260: the animation is invalid.
ReturnInvalid ==
  /\ opc = "validate"
  /\ ~Validate(input)
  /\ opc' = "done"
  /\ ret' = "false"
  /\ UNCHANGED <<optimizer, input, skeleton, has_output, output, bone, used, fvars, xvars>>

\* ReturnMismatch with the test of lines 263-265 made after the output was
\* rebuilt (after line 285).
ReturnMismatchAfterRebuild ==
  /\ opc = "validate"
  /\ Validate(input)
  /\ Len(input.tracks) # NumJoints(skeleton)
  /\ output' = [duration |-> input.duration,
                tracks |-> [i \in 1..Len(input.tracks) |->
                              FilterTrack(input.tracks[i], optimizer)]]
  /\ opc' = "done"
  /\ ret' = "false"
  /\ UNCHANGED <<optimizer, input, skeleton, has_output, bone, used, fvars, xvars>>

\* Lines 263-265: the skeleton does not match the animation.
ReturnMismatch ==
  /\ opc = "validate"
  /\ Validate(input)
  /\ Len(input.tracks) # NumJoints(skeleton)
  /\ opc' = "done"
  /\ ret' = "false"
  /\ UNCHANGED <<optimizer, input, skeleton, has_output, output, bone, used, fvars, xvars>>

\* Lines 268-274: bone lengths, then the output gets its duration and tracks.
BuildLengths ==
  /\ opc = "validate"
  /\ Validate(input)
  /\ Len(input.tracks) = NumJoints(skeleton)
  /\ bone' = BuildBoneLength(input, skeleton, build)
  /\ output' = [duration |-> input.duration,
                tracks |-> [i \in 1..Len(input.tracks) |->
                              [translations |-> <<>>, rotations |-> <<>>,
                               scales |-> <<>>]]]
  /\ used' = <<>>
  /\ opc' = "filter"
  /\ UNCHANGED <<optimizer, input, skeleton, has_output, ret, fvars, xvars>>

\* Lines 275-285: the three channels of track i (i = Len(used)).
FilterNextTrack ==
  /\ opc = "filter"
  /\ Len(used) < Len(input.tracks)
  /\ LET i == Len(used)
     IN  /\ output' = [output EXCEPT
                         !.tracks[i + 1] = FilterTrack(At(input.tracks, i), optimizer)]
         /\ used' = Append(used, optimizer)
  /\ UNCHANGED <<optimizer, input, skeleton, has_output, bone, opc, ret, fvars, xvars>>

\* Lines 286-289: assert(_output->Validate()) and return true.
ReturnOptimized ==
  /\ opc = "filter"
  /\ Len(used) = Len(input.tracks)
  /\ opc' = IF Validate(output) THEN "done" ELSE "abort"
  /\ ret' = IF Validate(output) THEN "true" ELSE "none"
  /\ UNCHANGED <<optimizer, input, skeleton, has_output, output, bone, used, fvars, xvars>>

OptimizeNext ==
  \/ ReturnNoOutput
  \/ ResetOutput
  \/ ReturnInvalid
  \/ ReturnMismatch
  \/ BuildLengths
  \/ FilterNextTrack
  \/ ReturnOptimized

SpecOptimize == OptimizeInit /\ [][OptimizeNext]_vars

\* ------------------------------------------- properties of operator()
Channels(track) == <<track.translations, track.rotations, track.scales>>

\* out holds keys of in, in their order, each at most once.
Subsequence(out, in) ==
  /\ Len(out) <= Len(in)
  /\ \A k \in 1..Len(out) : \E j \in 1..Len(in) : out[k] = in[j]
  /\ \A k \in 1..(Len(out) - 1) : out[k].time < out[k + 1].time

\* C3: what Filter has written is at every moment a subsequence of its input
\* (no longer, its keys unmodified, times strictly increasing), in Filter
\* alone and for every channel operator() has filtered; the final assertion
\* of operator() never fails and a returned output validates.
C3_OutputIsValidSubsequence ==
  /\ fpc # "idle" => ~loop.failed /\ Subsequence(loop.dest, src)
  /\ opc # "abort"
  /\ opc \in {"filter", "done"} /\ ret # "false" =>
       \A i \in 1..Len(used) : \A c \in 1..3 :
         Subsequence(Channels(output.tracks[i])[c], Channels(input.tracks[i])[c])
  /\ ret = "true" => Validate(output)

\* A returned output, one track's interior key removed and another's kept.
C3_Witness ==
  /\ ret = "true"
  /\ \E i \in 1..Len(input.tracks) :
       Len(output.tracks[i].translations) < Len(input.tracks[i].translations)
  /\ \E i \in 1..Len(input.tracks) :
       /\ Len(output.tracks[i].translations) = 3
       /\ output.tracks[i].translations = input.tracks[i].translations

\* C8: operator() returns false when there is no output, when the animation
\* is invalid or when its tracks are not as many as the joints, and true
\* otherwise; after false, the output is what it was before the call or the
\* default animation.
C8_FailsCleanly ==
  opc = "done" =>
    /\ ret = "false" <=> \/ ~has_output
                         \/ ~Validate(input)
                         \/ Len(input.tracks) # NumJoints(skeleton)
    /\ ret # "false" => ret = "true"
    /\ ret = "false" => output \in {PriorAnimation, DefaultAnimation}

\* A valid animation of two tracks or more refused for a skeleton it does
\* not match, the output reset.
C8_Witness ==
  /\ opc = "done" /\ ret = "false" /\ has_output
  /\ Validate(input) /\ Len(input.tracks) >= 2
  /\ output = DefaultAnimation

\* C9 as stated: two joints of the same keyframes and of different bone
\* lengths are filtered with different tolerances.
C9_ToleranceFollowsReach ==
  ret = "true" =>
    \A i, j \in 1..Len(input.tracks) :
      (input.tracks[i] = input.tracks[j] /\ bone.lengths[i] # bone.lengths[j])
        => used[i] # used[j]

\* Filter alone and operator(), side by side: a behaviour is one or the other.
SpecAll == (Init \/ OptimizeInit) /\ [][Next \/ OptimizeNext]_vars

\* ------------------------------------------------ BuildBoneLength alone
\* A valid animation and a skeleton of as many joints as it has tracks
\* (the assertion of line 112).
BoneInit ==
  /\ optimizer \in Optimizers
  /\ input \in {a \in Animations(MaxBones) : Validate(a)}
  /\ skeleton \in {sk \in Skeletons(MaxBones) :
                     NumJoints(sk) = Len(input.tracks)}
  /\ has_output = TRUE
  /\ output = DefaultAnimation
  /\ bone = <<>>
  /\ used = <<>>
  /\ opc = "bone"
  /\ ret = "none"
  /\ FilterIdle
  /\ OthersIdle

BuildBone ==
  /\ opc = "bone"
  /\ bone' = BuildBoneLength(input, skeleton, build)
  /\ opc' = IF bone'.failed THEN "abort" ELSE "built"
  /\ UNCHANGED <<optimizer, input, skeleton, has_output, output, used, ret, fvars, xvars>>

BoneNext == BuildBone

\* ------------------------------------------- properties of BuildBoneLength
Joints == 0..(NumJoints(skeleton) - 1)

ChildrenOf(j) == {c \in Joints : At(skeleton.parent, c) = j}

\* The local length and scale of joint j multiplied by the accumulated scale
\* of its parent (itself scaled by its own parent's, up to the root).
RECURSIVE ScaledSpec(_)
ScaledSpec(j) ==
  LET own == JointSpecOf(At(input.tracks, j))
      parent == At(skeleton.parent, j)
  IN  IF parent = kNoParentIndex THEN own
      ELSE [length |-> FMul(own.length, ScaledSpec(parent).scale),
            scale |-> FMul(own.scale, ScaledSpec(parent).scale)]

RECURSIVE MaxOf(_)
MaxOf(S) ==
  IF S = {} THEN 0
  ELSE LET x == CHOOSE y \in S : TRUE IN Max(x, MaxOf(S \ {x}))

\* The reach of joint j: 0 for a leaf, else the greatest, over all its
\* children c, of reach(c) + scaled length of c.
RECURSIVE Reach(_)
Reach(j) ==
  MaxOf({FAdd(Reach(c), ScaledSpec(c).length) : c \in ChildrenOf(j)})

\* C10 as stated: after BuildBoneLength the length of every leaf is 0 and the
\* length of every other joint is the greatest of reach + scaled length over
\* all its children.
C10_ReachOverAllChildren ==
  opc = "built" =>
    \A j \in Joints :
      /\ At(skeleton.is_leaf, j) => At(bone.lengths, j) = 0
      /\ At(bone.lengths, j) = Reach(j)

\* C11 as stated: after BuildBoneLength, for every joint c of parent p, the
\* length (reach) of p is at least the local length of c scaled by its
\* ancestors, and at least the length (reach) of c.
C11_ReachMonotone ==
  opc = "built" =>
    \A c \in Joints :
      LET p == At(skeleton.parent, c)
      IN  p # kNoParentIndex =>
            /\ At(bone.lengths, p) >= ScaledSpec(c).length
            /\ At(bone.lengths, p) >= At(bone.lengths, c)

\* The greatest absolute value over the keys of a channel (0 if none).
MaxAbsOf(keys) == MaxOf({AbsInt(keys[k].value) : k \in 1..Len(keys)})

\* The local length and scale C12 states for a track.
LocalSpec(track) ==
  [length |-> MaxAbsOf(track.translations),
   scale |-> IF Len(track.scales) = 0 THEN Unit ELSE MaxAbsOf(track.scales)]

\* C12 as stated: the local length of a joint is the greatest length over its
\* translation keys (0 if none) and its local scale the greatest absolute
\* scale component over its scale keys (1.0 if none).  Read on the roots,
\* whose length and scale no parent scales.
C12_LocalLengthAndScale ==
  opc = "built" =>
    \A j \in Joints :
      At(skeleton.parent, j) = kNoParentIndex
        => At(bone.joint_specs, j) = LocalSpec(At(input.tracks, j))

\* The positions at which joint j was entered.
EnteredAt(j) == {k \in 1..Len(bone.entered) : bone.entered[k] = j}

\* C14 as stated: BuildBoneLength enters every joint exactly once, a joint
\* after its parent, and leaves every joint's length and scale multiplied by
\* its parent's accumulated scale exactly once.
C14_TraversalCoverage ==
  opc = "built" =>
    \A j \in Joints :
      /\ Cardinality(EnteredAt(j)) = 1
      /\ At(skeleton.parent, j) # kNoParentIndex =>
           \A k \in EnteredAt(j) :
             \E l \in EnteredAt(At(skeleton.parent, j)) : l < k
      /\ At(bone.joint_specs, j) = ScaledSpec(j)

SpecBone == BoneInit /\ [][BoneNext]_vars

\* ------------------------------------ BuildBoneLength, any leaf flags
\* The skeletons of at most max joints whose leaf flags are any: a joint
\* flagged as a leaf may have children, a joint not flagged may have none.
FlaggedSkeletons(max) ==
  UNION {{[parent |-> p, is_leaf |-> f] : f \in [1..Len(p) -> BOOLEAN]} :
         p \in ParentArrays(max)}

\* The valid animations of n tracks, all tracks the same.
UniformAnimations(n) ==
  {[duration |-> 2 * Unit, tracks |-> [i \in 1..n |-> t]] : t \in ValidTracks}

ScanInit ==
  /\ optimizer \in Optimizers
  /\ skeleton \in FlaggedSkeletons(MaxJoints)
  /\ input \in UniformAnimations(NumJoints(skeleton))
  /\ build \in Builds(NumJoints(skeleton))
  /\ has_output = TRUE
  /\ output = DefaultAnimation
  /\ bone = <<>>
  /\ used = <<>>
  /\ opc = "bone"
  /\ ret = "none"
  /\ app = AppIdle
  /\ FilterIdle

ScanNext == BuildBone

SpecScan == ScanInit /\ [][ScanNext]_vars

\* Joint j has a child of greater index.
HasChild(j) == \E c \in Joints : c > j /\ At(skeleton.parent, c) = j

\* The joints Iter entered that are not flagged as leaves: those it scanned
\* for a first child.
Scanned ==
  {j \in Joints : EnteredAt(j) # {} /\ ~At(skeleton.is_leaf, j)}

\* C16 as stated: when every joint not flagged as a leaf has a child of
\* greater index, the scan of every such joint entered stops below the joint
\* count, at a child of the joint, the assertion holds and nothing is read
\* past the end; when a joint entered is not flagged as a leaf and has no
\* child, BuildBoneLength fails and returns no table.
C16_FirstChildScan ==
  opc \in {"built", "abort"} =>
    /\ (\A j \in Joints : ~At(skeleton.is_leaf, j) => HasChild(j)) =>
         /\ opc = "built"
         /\ ~bone.overread
         /\ \A j \in Scanned :
              LET child == FirstChild(skeleton, j, j + 1)
              IN  /\ child < NumJoints(skeleton)
                  /\ At(skeleton.parent, child) = j
    /\ (\E j \in Scanned : ~HasChild(j)) => opc = "abort"

\* ------------------------------------------- the sample application
SampleInit ==
  /\ app = AppStart
  /\ build = DebugBuild
  /\ OptimizerIdle
  /\ FilterIdle

\* OnInitialize: loads the skeleton and the animation, builds the runtime
\* animation, allocates the cache.
OnInitialize ==
  /\ app.pc = "start"
  /\ \E loaded, ok \in BOOLEAN : \E address \in Addresses :
       LET b == BuildAnimations(app, address, ok)
       IN  app' = IF ~loaded THEN [app EXCEPT !.ret = FALSE, !.pc = "failed"]
                  ELSE IF b.pc = "abort" THEN b
                  ELSE IF ~b.ret THEN [b EXCEPT !.pc = "failed"]
                  ELSE [b EXCEPT !.cache_allocated = TRUE,
                                 !.cache = FreshCache,
                                 !.pc = "running"]
  /\ UNCHANGED <<build, fvars, ovars>>

\* OnUpdate: samples the runtime animation with the cache.
OnUpdate ==
  /\ app.pc = "running"
  /\ app' = IF app.animation_rt_ = NULL \/ ~app.cache_allocated
            THEN [app EXCEPT !.pc = "abort"]
            ELSE SamplingJobRun(app)
  /\ UNCHANGED <<build, fvars, ovars>>

\* OnGui: the check box (toggled) and the sliders (slid, enabled while
\* optimize_), then the rebuild when one of them changed.
OnGui ==
  /\ app.pc = "running"
  /\ \E toggled, slid, ok \in BOOLEAN : \E address \in Addresses :
       LET gui == [app EXCEPT !.optimize_ = (@ # toggled),
                              !.tolerance = IF slid THEN 1 - @ ELSE @]
           r == Rebuild(gui, address, ok)
       IN  /\ slid => gui.optimize_
           /\ (toggled \/ slid) => app.built < MaxBuilds
           /\ app' = IF ~(toggled \/ slid) THEN [gui EXCEPT !.ret = TRUE]
                     ELSE IF r.pc = "abort" THEN r
                     ELSE IF ~r.ret THEN [r EXCEPT !.pc = "failed"]
                     ELSE r
  /\ UNCHANGED <<build, fvars, ovars>>

\* OnDestroy, when the application is closed or a handler has returned false.
OnDestroy ==
  /\ app.pc \in {"running", "failed"}
  /\ app' = [app EXCEPT !.animation_rt_ = NULL,
                        !.cache_allocated = FALSE,
                        !.pc = "destroyed"]
  /\ UNCHANGED <<build, fvars, ovars>>

SampleNext == OnInitialize \/ OnUpdate \/ OnGui \/ OnDestroy

SpecSample == SampleInit /\ [][SampleNext]_vars

\* C13: at every rebuild of OnGui the runtime animation was deleted (the
\* pointer null) when the cache was invalidated and the cache was invalidated
\* when the new animation was built; every sampling job ran on a runtime
\* animation that existed, with cursors resolved against that very build; and
\* while the application runs, it has a runtime animation and a cache.
C13_CacheInvalidatedOnRebuild ==
  app.pc # "idle" =>
    /\ app.rebuilt.at_invalidate = NULL
    /\ app.rebuilt.at_build = FreshCache
    /\ app.sampled.ran =>
         /\ app.sampled.animation # 0
         /\ app.sampled.cursors = app.sampled.animation
    /\ app.pc # "abort"
    /\ app.pc = "running" => app.animation_rt_ # NULL /\ app.cache_allocated

\* A sampling job has run on a rebuilt animation that was allocated at the
\* address of the deleted one, the cache having been resolved against the
\* deleted one when the rebuild began.
C13_Witness ==
  /\ app.pc = "running" /\ app.built >= 2
  /\ app.rebuilt.deleted = app.animation_rt_
  /\ app.rebuilt.cache_was.animation_ = app.rebuilt.deleted
  /\ app.sampled.ran /\ app.sampled.animation = app.built

====
